---- MODULE Spec2Model ----
(***************************************************************************)
(* ntex-mqtt v5: the server-side protocol selector (src/v5/selector.rs)    *)
(* and the client connector (src/v5/client/connector.rs).                  *)
(*                                                                         *)
(* Each async fn is cut at its .await points: one action per segment that  *)
(* runs between two suspension points.                                     *)
(***************************************************************************)
EXTENDS Naturals, Sequences, FiniteSets, TLC

(* ------------------------------ bounds --------------------------------- *)

\* largest number of variants registered with Selector::variant
MaxVariants == 3
\* largest handshake timeout (seconds) a selector or connector is given
MaxTimeout == 2
\* largest max_size / max_packet_size value
MaxSize == 1
\* largest keep-alive value (seconds), requested or server-assigned
MaxKeepAlive == 1
\* largest receive-max value, advertised or negotiated
MaxReceive == 2
MaxAttempts == 2
MaxConns == 2

(* ------------------------------ Option<T> ------------------------------ *)

None == << >>
Some(v) == << v >>
Option(S) == {None} \cup {Some(v) : v \in S}
is_some(o) == o # None
unwrap_or(o, d) == IF o = None THEN d ELSE o[1]

\* Seconds::non_zero / Seconds::map(f): Some(f(t)) unless the value is zero
non_zero(t) == t # 0

(* ------------------------------ packets -------------------------------- *)

\* packet types other than CONNECT / CONNACK that may arrive on the wire
OtherTypes == {"Publish", "PingRequest"}

ConnectPackets ==
    [type : {"Connect"}, keep_alive : 0..MaxKeepAlive,
     receive_max : Option(1..MaxReceive), max_packet_size : Option(1..MaxSize)]

AckReasons == {"Success", "NotAuthorized", "ServerBusy"}

ConnectAckPackets ==
    [type : {"ConnectAck"}, reason_code : AckReasons,
     server_keepalive_sec : Option(0..MaxKeepAlive),
     max_packet_size : Option(1..MaxSize),
     receive_max : Option(1..MaxReceive)]

OtherPackets == [type : OtherTypes]

\* a successful acknowledgment that carries no optional field
PlainAck ==
    [type |-> "ConnectAck", reason_code |-> "Success",
     server_keepalive_sec |-> None, max_packet_size |-> None,
     receive_max |-> None]

packet_type(p) == p.type

\* what State::next can resolve to: Err(e), Ok(None), Ok(Some(packet))
ReadErrors == {"decode", "io"}
ReadErr(e) == [ok |-> FALSE, err |-> e]
ReadOk(o) == [ok |-> TRUE, val |-> o]

NoResult == [kind |-> "None"]

(* ------------------------------- state --------------------------------- *)

\* the server selector, one connection
VARIABLES
    s_servers,      \* number of variant services held by SelectorService
    s_order,        \* s_order[i]: which registration the service at position i
                    \* of SelectorService.servers comes from
    s_behav,        \* how the j-th registered variant answers this
                    \* connection's item
    s_max_size,     \* SelectorService.max_size
    s_handshake_timeout,      \* SelectorService.handshake_timeout
    s_pc,           \* position of call()'s future
    s_shared,       \* the MqttShared built by call()
    s_frame,        \* what the first read resolved to
    s_delay,        \* Option<Sleep> built by call()
    s_item,         \* the SelectItem while the selector's task holds it
    s_first,        \* the item as built at the "call servers" line
    s_k,            \* index of the variant that holds the item
    s_seen,         \* s_seen[i]: the item variant i was called with
    s_calls,        \* indices of the variants called, in call order
    s_returns,      \* what each called variant returned, in call order
    s_io,           \* where the stream is
    s_result,       \* the result call()'s future resolved to
    s_clock         \* seconds since call() was invoked

selVars == << s_servers, s_order, s_behav, s_max_size, s_handshake_timeout, s_pc, s_shared, s_frame,
              s_delay, s_item, s_first, s_k, s_seen, s_calls, s_returns,
              s_io, s_result, s_clock >>

\* the client connector, one connect()
VARIABLES
    c_pkt,                  \* MqttConnector.pkt, the Connect Request
    c_handshake_timeout,              \* MqttConnector.handshake_timeout
    c_disconnect_timeout,   \* MqttConnector.disconnect_timeout
    c_stall,                \* the await of _connect the peer never completes
    c_pc,                   \* position of connect()'s future
    c_local,                \* what _connect captured before its async block
    c_timer,                \* the timer of timeout(..): Some(deadline) or None
    c_clock,                \* seconds since connect() was called
    c_io,                   \* where the stream is
    c_wire,                 \* the frames written to the peer
    c_frame,                \* what the read after CONNECT resolved to
    c_shared,               \* the MqttShared built after the read
    c_result,               \* the result connect()'s future resolved to
    c_ops,                  \* the attempt's I/O calls and how each returned
    c_budget,               \* the calls of connect() the caller has yet to make
    c_sent,                 \* the CONNECT frames written by all attempts so far
    c_negotiated            \* the kinds of value earlier attempts negotiated

cliVars == << c_pkt, c_handshake_timeout, c_disconnect_timeout, c_stall, c_pc, c_local,
              c_timer, c_clock, c_io, c_wire, c_frame, c_shared, c_result,
              c_ops, c_budget, c_sent, c_negotiated >>

\* readiness and shutdown polling of a selector service
VARIABLES
    p_servers,      \* number of variant services held by the service
    p_ready,        \* p_ready[i]: what variant i's poll_ready answers now
    p_shutdown,     \* p_shutdown[i]: what variant i's poll_shutdown answers now
    p_last          \* the last poll: the call, whom it polled, what it returned

pollVars == << p_servers, p_ready, p_shutdown, p_last >>

\* the same connection taken through SelectorService2, built by
\* finish_server from the same builder
VARIABLES
    s2_order,       \* s2_order[i]: which registration the service at position
                    \* i of SelectorService2.servers comes from
    s2_pc,          \* position of call()'s future
    s2_delay,       \* the Option<Sleep> the caller passed in
    s2_shared,      \* the MqttShared built by call()
    s2_frame,       \* what the first read resolved to
    s2_first,       \* the item as built at the "call servers" line
    s2_k,           \* index of the variant that holds the item
    s2_seen,        \* the item each called variant was called with
    s2_calls,       \* indices of the variants called, in call order
    s2_returns,     \* what each called variant returned, in call order
    s2_io,          \* where the stream is
    s2_result       \* the result call()'s future resolved to

sel2Vars == << s2_order, s2_pc, s2_delay, s2_shared, s2_frame, s2_first, s2_k, s2_seen,
               s2_calls, s2_returns, s2_io, s2_result >>

\* the connections one SelectorService handles at the same time
VARIABLES
    m_max_size,             \* SelectorService.max_size
    m_handshake_timeout,    \* SelectorService.handshake_timeout
    m_heap,                 \* the MqttShared records behind the Rc's, by address
    m_conn                  \* m_conn[c]: the future of the call() for connection c

manyVars == << m_max_size, m_handshake_timeout, m_heap, m_conn >>

vars == << selVars, cliVars, pollVars, manyVars, sel2Vars >>

\* the clock stops one second after the largest deadline
MaxClock == MaxTimeout + 1

(* =========================== server selector =========================== *)

VariantErrors == {"e1", "e2"}
Behaviours == {"decline", "accept"} \cup VariantErrors

\* MqttShared::new(state, Codec::default().max_inbound_size(max_size), 0, pool);
\* out_sets counts the calls of set_max_outbound_size on the record's codec
NewShared(max_size) ==
    [max_in |-> max_size, max_out |-> None, out_sets |-> 0, cap |-> 0]

\* (Handshake::new(connect, io, shared, 0, 0, 0), state, delay)
NewItem(connect, shared, delay) ==
    [connect |-> connect, shared |-> shared, delay |-> delay]

\* the variant service's answer: Ok(Either::Left(item)), Ok(Either::Right(()))
\* or Err(e)
Left(item) == [tag |-> "Left", item |-> item]
Right == [tag |-> "Right"]
Err(e) == [tag |-> "Err", err |-> e]

\* A variant built by MqttServer::finish_selector: a false predicate hands
\* the item back as it was received.
VariantAnswer(b, item) ==
    CASE b = "decline" -> Left(item)
      [] b = "accept" -> Right
      [] OTHER -> Err([kind |-> "Service", err |-> b])

\* mutant: a new variant is put in front of the ones registered before
variant_Prepend(servers, server) == << server >> \o servers

\* Selector::variant: self.servers.push(boxed::factory(..))
variant(servers, server) == Append(servers, server)

\* the builder after n calls of variant, the j-th call registering j
RECURSIVE Registered(_)
Registered(n) == IF n = 0 THEN << >> ELSE variant(Registered(n - 1), n)

\* for fut in futs { servers.push(fut.await?); }
RECURSIVE PushAll(_, _)
PushAll(futs, servers) ==
    IF futs = << >> THEN servers
    ELSE PushAll(Tail(futs), Append(servers, Head(futs)))

\* Selector::new_service: one service per registered factory
new_service(factories) == PushAll(factories, << >>)

SelInit ==
    /\ s_servers \in 0..MaxVariants
    /\ s_order = new_service(Registered(s_servers))
    /\ s_behav \in [1..s_servers -> Behaviours]
    /\ s_max_size \in 0..MaxSize
    /\ s_handshake_timeout \in {0, MaxTimeout}
    /\ s_pc = "idle"
    /\ s_shared = None
    /\ s_frame = None
    /\ s_delay = None
    /\ s_item = None
    /\ s_first = None
    /\ s_k = 0
    /\ s_seen = << >>
    /\ s_calls = << >>
    /\ s_returns = << >>
    /\ s_io = "none"
    /\ s_result = NoResult
    /\ s_clock = 0

\* SelectorService::call up to the boxed future: nothing is read yet
SelCall ==
    /\ s_pc = "idle"
    /\ s_pc' = "read"
    /\ s_shared' = Some(NewShared(s_max_size))
    /\ s_delay' = IF non_zero(s_handshake_timeout) THEN Some("sleep") ELSE None
    /\ s_io' = "task"
    /\ s_clock' = 0
    /\ UNCHANGED << s_servers, s_order, s_behav, s_max_size, s_handshake_timeout, s_frame,
                    s_item, s_first, s_k, s_seen, s_calls, s_returns,
                    s_result >>
    /\ UNCHANGED << cliVars, pollVars, manyVars, sel2Vars >>

\* result of the first read: Err for an error or a closed stream, the packet
\* otherwise
FirstPacket(res) ==
    IF ~res.ok THEN [ok |-> FALSE, err |-> [kind |-> "Read", err |-> res.err]]
    ELSE IF res.val = None THEN [ok |-> FALSE, err |-> [kind |-> "Disconnected"]]
    ELSE [ok |-> TRUE, packet |-> res.val[1]]

ExpectedConnect == "MQTT-3.1.0-1: Expected CONNECT packet"

\* mutant: the type of the first packet is not checked
MatchConnect_AnyPacket(packet) ==
    [ok |-> TRUE, connect |-> packet]

\* match packet { Connect(connect) => connect, packet => return Err(..) }
MatchConnect(packet) ==
    IF packet.type = "Connect" THEN [ok |-> TRUE, connect |-> packet]
    ELSE [ok |-> FALSE,
          err |-> [kind |-> "Protocol", unexpected |-> packet_type(packet),
                   rule |-> ExpectedConnect]]

CannotHandle == [kind |-> "ServerError", msg |-> "Cannot handle CONNECT packet"]

\* mutant: the loop stops one variant short
Offer_StopsShort(k, item) ==
    IF k < s_servers
    THEN /\ s_pc' = "variant"
         /\ s_k' = k
         /\ s_item' = None
         /\ s_seen' = Append(s_seen, item)
         /\ s_calls' = Append(s_calls, k)
         /\ s_io' = "variant"
         /\ s_result' = NoResult
    ELSE /\ s_pc' = "done"
         /\ s_k' = k
         /\ s_item' = None
         /\ s_seen' = s_seen
         /\ s_calls' = s_calls
         /\ s_io' = "dropped"
         /\ s_result' = [kind |-> "Err", err |-> CannotHandle]

\* mutant: the item is handed to variant k and to its successor at once
Offer_Fanout(k, item) ==
    IF k < s_servers
    THEN /\ s_pc' = "variant"
         /\ s_k' = k + 1
         /\ s_item' = None
         /\ s_seen' = Append(Append(s_seen, item), item)
         /\ s_calls' = Append(Append(s_calls, k), k + 1)
         /\ s_io' = "variant"
         /\ s_result' = NoResult
    ELSE IF k = s_servers
    THEN /\ s_pc' = "variant"
         /\ s_k' = k
         /\ s_item' = None
         /\ s_seen' = Append(s_seen, item)
         /\ s_calls' = Append(s_calls, k)
         /\ s_io' = "variant"
         /\ s_result' = NoResult
    ELSE /\ s_pc' = "done"
         /\ s_k' = k
         /\ s_item' = None
         /\ s_seen' = s_seen
         /\ s_calls' = s_calls
         /\ s_io' = "dropped"
         /\ s_result' = [kind |-> "Err", err |-> CannotHandle]

\* the for loop from position k on with the task holding item: call variant
\* k if there is one, else fall out of the loop
Offer(k, item) ==
    IF k <= s_servers
    THEN /\ s_pc' = "variant"
         /\ s_k' = k
         /\ s_item' = None
         /\ s_seen' = Append(s_seen, item)
         /\ s_calls' = Append(s_calls, k)
         /\ s_io' = "variant"
         /\ s_result' = NoResult
    ELSE /\ s_pc' = "done"
         /\ s_k' = k
         /\ s_item' = None
         /\ s_seen' = s_seen
         /\ s_calls' = s_calls
         /\ s_io' = "dropped"
         /\ s_result' = [kind |-> "Err", err |-> CannotHandle]

\* state.next(..).await resolves; up to the first srv.call(item).await
SelReadFirst(res) ==
    /\ s_pc = "read"
    /\ s_frame' = Some(res)
    /\ LET first == FirstPacket(res) IN
       IF ~first.ok
       THEN /\ s_pc' = "done"
            /\ s_io' = "dropped"
            /\ s_result' = [kind |-> "Err", err |-> first.err]
            /\ UNCHANGED << s_item, s_first, s_k, s_seen, s_calls >>
       ELSE LET m == MatchConnect(first.packet) IN
            IF ~m.ok
            THEN /\ s_pc' = "done"
                 /\ s_io' = "dropped"
                 /\ s_result' = [kind |-> "Err", err |-> m.err]
                 /\ UNCHANGED << s_item, s_first, s_k, s_seen, s_calls >>
            ELSE LET item == NewItem(m.connect, s_shared[1], s_delay) IN
                 /\ s_first' = Some(item)
                 /\ Offer(1, item)
    /\ UNCHANGED << s_servers, s_order, s_behav, s_max_size, s_handshake_timeout, s_shared,
                    s_delay, s_returns, s_clock >>
    /\ UNCHANGED << cliVars, pollVars, manyVars, sel2Vars >>

\* mutant: an accepting variant's answer is taken for the end of the chain
MatchAnswer_AcceptLost(ans) ==
    CASE ans.tag = "Err" ->
            [continue |-> FALSE, result |-> [kind |-> "Err", err |-> ans.err]]
      [] ans.tag = "Right" ->
            [continue |-> FALSE, result |-> [kind |-> "Err", err |-> CannotHandle]]
      [] OTHER ->
            [continue |-> TRUE, item |-> ans.item]

\* mutant: a variant's error is replaced by the selector's own
MatchAnswer_ErrorLost(ans) ==
    CASE ans.tag = "Err" ->
            [continue |-> FALSE, result |-> [kind |-> "Err", err |-> CannotHandle]]
      [] ans.tag = "Right" ->
            [continue |-> FALSE, result |-> [kind |-> "Ok"]]
      [] OTHER ->
            [continue |-> TRUE, item |-> ans.item]

\* match srv.call(item).await? { Left(result) => item = result,
\*                               Right(_) => return Ok(()) }
MatchAnswer(ans) ==
    CASE ans.tag = "Err" ->
            [continue |-> FALSE, result |-> [kind |-> "Err", err |-> ans.err]]
      [] ans.tag = "Right" ->
            [continue |-> FALSE, result |-> [kind |-> "Ok"]]
      [] OTHER ->
            [continue |-> TRUE, item |-> ans.item]

\* srv.call(item).await resolves for the variant at s_k; up to the next
\* srv.call(item).await or the end of call()
SelVariantDone ==
    /\ s_pc = "variant"
    /\ LET ans == VariantAnswer(s_behav[s_order[s_k]], s_seen[Len(s_seen)])
           m == MatchAnswer(ans)
       IN  /\ s_returns' = Append(s_returns, ans)
           /\ IF m.continue
              THEN Offer(s_k + 1, m.item)
              ELSE /\ s_pc' = "done"
                   /\ s_io' = "dropped"
                   /\ s_result' = m.result
                   /\ UNCHANGED << s_item, s_k, s_seen, s_calls >>
    /\ UNCHANGED << s_servers, s_order, s_behav, s_max_size, s_handshake_timeout, s_shared,
                    s_frame, s_delay, s_first, s_clock >>
    /\ UNCHANGED << cliVars, pollVars, manyVars, sel2Vars >>

\* mutant: the selector gives up the first read when its timer runs out
SelTick_Expires ==
    /\ s_pc = "read"
    /\ s_clock < MaxClock
    /\ s_clock' = s_clock + 1
    /\ IF is_some(s_delay) /\ s_clock' >= s_handshake_timeout
       THEN /\ s_pc' = "done"
            /\ s_io' = "dropped"
            /\ s_result' = [kind |-> "Err", err |-> [kind |-> "HandshakeTimeout"]]
       ELSE UNCHANGED << s_pc, s_io, s_result >>
    /\ UNCHANGED << s_servers, s_order, s_behav, s_max_size, s_handshake_timeout, s_shared,
                    s_frame, s_delay, s_item, s_first, s_k, s_seen, s_calls, s_returns >>
    /\ UNCHANGED << cliVars, pollVars, manyVars, sel2Vars >>

\* a second passes while call() waits for the first frame: nothing in
\* call() polls delay
SelTick ==
    /\ s_pc = "read"
    /\ s_clock < MaxClock
    /\ s_clock' = s_clock + 1
    /\ UNCHANGED << s_servers, s_order, s_behav, s_max_size, s_handshake_timeout, s_pc,
                    s_shared, s_frame, s_delay, s_item, s_first, s_k, s_seen, s_calls,
                    s_returns, s_io, s_result >>
    /\ UNCHANGED << cliVars, pollVars, manyVars, sel2Vars >>

\* what the first read can resolve to
FirstReads ==
    {ReadErr(e) : e \in ReadErrors} \cup {ReadOk(None)}
        \cup {ReadOk(Some(p)) : p \in ConnectPackets \cup OtherPackets \cup {PlainAck}}

SelNext ==
    \/ SelCall
    \/ \E res \in FirstReads : SelReadFirst(res)
    \/ SelVariantDone
    \/ SelTick

(* =========================== client connector ========================== *)

\* MqttConnector::new: disconnect_timeout: Seconds(3)
DefaultDisconnectTimeout == 3

\* MqttConnector::max_packet_size / receive_max: NonZero::new(val)
NonZeroNew(val) == IF val # 0 THEN Some(val) ELSE None

\* the builder calls keep_alive, max_packet_size and receive_max on the
\* default Connect packet
BuildConnect(keep_alive, max_packet_size, receive_max) ==
    [type |-> "Connect", keep_alive |-> keep_alive,
     receive_max |-> NonZeroNew(receive_max),
     max_packet_size |-> NonZeroNew(max_packet_size)]

Stages == {"connect", "write", "read"}

CliInit ==
    /\ \E ka \in 0..MaxKeepAlive, mps \in 0..MaxSize, rm \in 0..MaxReceive :
            c_pkt = BuildConnect(ka, mps, rm)
    /\ c_handshake_timeout \in 0..MaxTimeout
    /\ c_disconnect_timeout = DefaultDisconnectTimeout
    /\ c_stall \in Stages \cup {"none"}
    /\ c_pc = "idle"
    /\ c_local = None
    /\ c_timer = None
    /\ c_clock = 0
    /\ c_io = "none"
    /\ c_wire = << >>
    /\ c_frame = None
    /\ c_shared = None
    /\ c_result = NoResult
    /\ c_ops = << >>
    /\ c_sent = << >>
    /\ c_negotiated = {}

\* mutant: the attempt is raced against a timer whatever the timeout
MakeTimer_Always(t) == Some(t)

\* timeout(handshake_timeout, fut) when the timeout is non-zero, the bare
\* future otherwise
MakeTimer(t) == IF non_zero(t) THEN Some(t) ELSE None

\* _connect before its async block
Capture(pkt, disconnect_timeout) ==
    [pkt |-> pkt,
     keep_alive |-> pkt.keep_alive,
     max_packet_size |-> unwrap_or(pkt.max_packet_size, 0),
     max_receive |-> unwrap_or(pkt.receive_max, 0),
     disconnect_timeout |-> disconnect_timeout]

\* the kinds of value the session of result took from its acknowledgment
Negotiated(result) ==
    IF result.kind # "Ok" THEN {}
    ELSE {k \in {"keep_alive", "cap", "max_out"} :
            \/ k = "keep_alive" /\ is_some(result.client.pkt.server_keepalive_sec)
            \/ k = "cap" /\ is_some(result.client.pkt.receive_max)
            \/ k = "max_out" /\ is_some(result.client.pkt.max_packet_size)}

\* connect(), called when no earlier attempt of the caller is pending:
\* _connect() calls the transport connector and clones the configuration,
\* then the timer is set up; the attempt starts with nothing of its own
CliConnect ==
    /\ c_pc \in {"idle", "done"}
    /\ c_budget > 0
    /\ c_budget' = c_budget - 1
    /\ c_negotiated' = c_negotiated \cup Negotiated(c_result)
    /\ c_pc' = "connect"
    /\ c_local' = Some(Capture(c_pkt, c_disconnect_timeout))
    /\ c_timer' = MakeTimer(c_handshake_timeout)
    /\ c_clock' = 0
    /\ c_ops' = << "call" >>
    /\ c_io' = "none"
    /\ c_wire' = << >>
    /\ c_frame' = None
    /\ c_shared' = None
    /\ c_result' = NoResult
    /\ UNCHANGED << c_pkt, c_handshake_timeout, c_disconnect_timeout, c_stall, c_sent >>
    /\ UNCHANGED << selVars, pollVars, manyVars, sel2Vars >>

\* the attempt ends with Err(e): the future and what it owns are dropped
Fail(e) ==
    /\ c_pc' = "done"
    /\ c_io' = IF c_io = "none" THEN "none" ELSE "dropped"
    /\ c_result' = [kind |-> "Err", err |-> e]

\* mutant: a failed transport connect is tried once more
CliTransportDone_Retry(ok) ==
    /\ c_pc = "connect"
    /\ c_stall # "connect"
    /\ IF ok
       THEN /\ c_pc' = "write"
            /\ c_io' = "attempt"
            /\ c_result' = c_result
            /\ c_ops' = c_ops \o << "ok", "send" >>
       ELSE IF Len(c_ops) = 1
       THEN /\ c_ops' = c_ops \o << "err", "call" >>
            /\ UNCHANGED << c_pc, c_io, c_result >>
       ELSE /\ Fail([kind |-> "Connect"])
            /\ c_ops' = Append(c_ops, "err")
    /\ UNCHANGED << c_pkt, c_handshake_timeout, c_disconnect_timeout, c_stall, c_budget,
                    c_negotiated, c_local,
                    c_timer, c_clock, c_wire, c_frame, c_shared, c_sent >>
    /\ UNCHANGED << selVars, pollVars, manyVars, sel2Vars >>

\* fut.await? resolves: the transport connector's answer
CliTransportDone(ok) ==
    /\ c_pc = "connect"
    /\ c_stall # "connect"
    /\ IF ok
       THEN /\ c_pc' = "write"
            /\ c_io' = "attempt"
            /\ c_result' = c_result
            /\ c_ops' = c_ops \o << "ok", "send" >>
       ELSE /\ Fail([kind |-> "Connect"])
            /\ c_ops' = Append(c_ops, "err")
    /\ UNCHANGED << c_pkt, c_handshake_timeout, c_disconnect_timeout, c_stall, c_budget,
                    c_negotiated, c_local,
                    c_timer, c_clock, c_wire, c_frame, c_shared, c_sent >>
    /\ UNCHANGED << selVars, pollVars, manyVars, sel2Vars >>

WriteErrors == {"encode", "io"}

\* state.send(&mut io, &codec, Packet::Connect(pkt)).await? resolves
CliWriteDone(res) ==
    /\ c_pc = "write"
    /\ c_stall # "write"
    /\ IF res = "ok"
       THEN /\ c_pc' = "read"
            /\ c_wire' = Append(c_wire, c_local[1].pkt)
            /\ c_sent' = Append(c_sent, c_local[1].pkt)
            /\ c_ops' = c_ops \o << "ok", "next" >>
            /\ UNCHANGED << c_io, c_result >>
       ELSE /\ Fail([kind |-> "Protocol", err |-> res])
            /\ c_ops' = Append(c_ops, "err")
            /\ UNCHANGED << c_wire, c_sent >>
    /\ UNCHANGED << c_pkt, c_handshake_timeout, c_disconnect_timeout, c_stall, c_budget,
                    c_negotiated, c_local,
                    c_timer, c_clock, c_frame, c_shared >>
    /\ UNCHANGED << selVars, pollVars, manyVars, sel2Vars >>

\* mutant: a closed stream is reported as a failed read
ReadPacket_EofAsError(res) ==
    IF ~res.ok THEN [ok |-> FALSE, err |-> [kind |-> "Protocol", err |-> res.err]]
    ELSE IF res.val = None THEN [ok |-> FALSE, err |-> [kind |-> "Protocol", err |-> "io"]]
    ELSE [ok |-> TRUE, packet |-> res.val[1]]

\* result of the read: Err for an error or a closed stream, the packet
\* otherwise
ReadPacket(res) ==
    IF ~res.ok THEN [ok |-> FALSE, err |-> [kind |-> "Protocol", err |-> res.err]]
    ELSE IF res.val = None THEN [ok |-> FALSE, err |-> [kind |-> "Disconnected"]]
    ELSE [ok |-> TRUE, packet |-> res.val[1]]

\* mutant: the limit is set whether or not the ack carries a size
SetMaxOutbound_Always(shared, pkt) ==
    [shared EXCEPT !.max_out = Some(unwrap_or(pkt.max_packet_size, 0)),
                   !.out_sets = @ + 1]

\* if let Some(size) = pkt.max_packet_size {
\*     shared.codec.set_max_outbound_size(size) }
SetMaxOutbound(shared, pkt) ==
    IF is_some(pkt.max_packet_size)
    THEN [shared EXCEPT !.max_out = Some(pkt.max_packet_size[1]),
                        !.out_sets = @ + 1]
    ELSE shared

\* mutant: the server's keep-alive is ignored
NegotiatedKeepAlive_Requested(pkt, local) == local.keep_alive

\* pkt.server_keepalive_sec.unwrap_or(keep_alive)
NegotiatedKeepAlive(pkt, local) == unwrap_or(pkt.server_keepalive_sec, local.keep_alive)

\* mutant: an absent receive-max falls back to the client's own
NegotiatedCap_Advertised(pkt, local) == unwrap_or(pkt.receive_max, local.max_receive)

\* shared.cap.set(pkt.receive_max.map(|v| v.get()).unwrap_or(0) as usize)
NegotiatedCap(pkt, local) == unwrap_or(pkt.receive_max, 0)

\* mutant: only one failing reason code is told from success
IsSuccess_Lenient(pkt) == pkt.reason_code # "NotAuthorized"

\* whether the acknowledgment establishes the session
IsSuccess(pkt) == pkt.reason_code = "Success"

ExpectedConnAck == "Expected CONNECT-ACK packet"

\* mutant: the error names the packet type that was awaited
Unexpected_Awaited(p) ==
    [kind |-> "Protocol", unexpected |-> "ConnectAck", expected |-> ExpectedConnAck]

\* ProtocolError::Unexpected(p.packet_type(), "Expected CONNECT-ACK packet").into()
Unexpected(p) ==
    [kind |-> "Protocol", unexpected |-> packet_type(p), expected |-> ExpectedConnAck]

\* match packet { ConnectAck(pkt) => .., p => Err(Unexpected(..)) } with the
\* fresh shared record: the result and the shared record as it is left
MatchPacket(packet, shared, local) ==
    IF packet.type = "ConnectAck"
    THEN IF IsSuccess(packet)
         THEN LET sh == [SetMaxOutbound(shared, packet)
                            EXCEPT !.cap = NegotiatedCap(packet, local)]
              IN  [shared |-> sh,
                   result |-> [kind |-> "Ok",
                               client |-> [shared |-> sh,
                                           pkt |-> packet,
                                           max_receive |-> local.max_receive,
                                           keep_alive |-> NegotiatedKeepAlive(packet, local),
                                           disconnect_timeout |-> local.disconnect_timeout]]]
         ELSE [shared |-> shared,
               result |-> [kind |-> "Err", err |-> [kind |-> "Ack", ack |-> packet]]]
    ELSE [shared |-> shared,
          result |-> [kind |-> "Err", err |-> Unexpected(packet)]]

\* mutant: the negotiated keep-alive is stored in the connector's request
CliReadDone_WritesBack(res) ==
    /\ c_pc = "read"
    /\ c_stall # "read"
    /\ c_frame' = Some(res)
    /\ LET r == ReadPacket(res) IN
       IF ~r.ok
       THEN /\ Fail(r.err)
            /\ c_shared' = c_shared
            /\ c_ops' = Append(c_ops, "err")
            /\ c_pkt' = c_pkt
       ELSE LET m == MatchPacket(r.packet, NewShared(c_local[1].max_packet_size), c_local[1])
            IN  /\ c_pc' = "done"
                /\ c_shared' = Some(m.shared)
                /\ c_result' = m.result
                /\ c_io' = IF m.result.kind = "Ok" THEN "client" ELSE "dropped"
                /\ c_ops' = Append(c_ops, "ok")
                /\ c_pkt' = IF m.result.kind = "Ok"
                            THEN [c_pkt EXCEPT !.keep_alive = m.result.client.keep_alive]
                            ELSE c_pkt
    /\ UNCHANGED << c_handshake_timeout, c_disconnect_timeout, c_stall, c_budget,
                    c_negotiated, c_local, c_timer, c_clock, c_wire, c_sent >>
    /\ UNCHANGED << selVars, pollVars, manyVars, sel2Vars >>

\* state.next(&mut io, &codec).await resolves; up to the end of _connect
CliReadDone(res) ==
    /\ c_pc = "read"
    /\ c_stall # "read"
    /\ c_frame' = Some(res)
    /\ LET r == ReadPacket(res) IN
       IF ~r.ok
       THEN /\ Fail(r.err)
            /\ c_shared' = c_shared
            /\ c_ops' = Append(c_ops, "err")
       ELSE LET m == MatchPacket(r.packet, NewShared(c_local[1].max_packet_size), c_local[1])
            IN  /\ c_pc' = "done"
                /\ c_shared' = Some(m.shared)
                /\ c_result' = m.result
                /\ c_io' = IF m.result.kind = "Ok" THEN "client" ELSE "dropped"
                /\ c_ops' = Append(c_ops, "ok")
    /\ UNCHANGED << c_pkt, c_handshake_timeout, c_disconnect_timeout, c_stall, c_budget,
                    c_negotiated, c_local,
                    c_timer, c_clock, c_wire, c_sent >>
    /\ UNCHANGED << selVars, pollVars, manyVars, sel2Vars >>

\* a second passes while the attempt is pending
CliTick ==
    /\ c_pc \in Stages
    /\ c_clock < MaxClock
    /\ c_clock' = c_clock + 1
    /\ UNCHANGED << c_pkt, c_handshake_timeout, c_disconnect_timeout, c_stall, c_budget,
                    c_negotiated, c_pc,
                    c_local, c_timer, c_io, c_wire, c_frame, c_shared,
                    c_result, c_ops, c_sent >>
    /\ UNCHANGED << selVars, pollVars, manyVars, sel2Vars >>

\* mutant: the timer is ready as soon as it exists
Elapsed_AtOnce(timer, clock) == is_some(timer)

\* whether the timer of timeout(..) has run out
Elapsed(timer, clock) == is_some(timer) /\ clock >= timer[1]

\* mutant: the timer's win takes back what the attempt wrote
CliTimerFire_Rollback ==
    /\ c_pc \in Stages
    /\ Elapsed(c_timer, c_clock)
    /\ Fail([kind |-> "HandshakeTimeout"])
    /\ c_wire' = << >>
    /\ UNCHANGED << c_pkt, c_handshake_timeout, c_disconnect_timeout, c_stall, c_budget,
                    c_negotiated, c_local,
                    c_timer, c_clock, c_frame, c_shared, c_ops, c_sent >>
    /\ UNCHANGED << selVars, pollVars, manyVars, sel2Vars >>

\* mutant: the timer is still raced after the attempt has resolved
CliTimerFire_Late ==
    /\ c_pc # "idle"
    /\ Elapsed(c_timer, c_clock)
    /\ Fail([kind |-> "HandshakeTimeout"])
    /\ UNCHANGED << c_pkt, c_handshake_timeout, c_disconnect_timeout, c_stall, c_budget,
                    c_negotiated, c_local,
                    c_timer, c_clock, c_wire, c_frame, c_shared, c_ops, c_sent >>
    /\ UNCHANGED << selVars, pollVars, manyVars, sel2Vars >>

\* the timer wins: Err(_) => Err(ClientError::HandshakeTimeout); the
\* attempt's future is dropped where it is
CliTimerFire ==
    /\ c_pc \in Stages
    /\ Elapsed(c_timer, c_clock)
    /\ Fail([kind |-> "HandshakeTimeout"])
    /\ UNCHANGED << c_pkt, c_handshake_timeout, c_disconnect_timeout, c_stall, c_budget,
                    c_negotiated, c_local,
                    c_timer, c_clock, c_wire, c_frame, c_shared, c_ops, c_sent >>
    /\ UNCHANGED << selVars, pollVars, manyVars, sel2Vars >>

\* what the read after CONNECT can resolve to
ClientReads ==
    {ReadErr(e) : e \in ReadErrors} \cup {ReadOk(None)}
        \cup {ReadOk(Some(p)) : p \in ConnectAckPackets \cup OtherPackets}

CliNext ==
    \/ CliConnect
    \/ \E ok \in BOOLEAN : CliTransportDone(ok)
    \/ \E res \in {"ok"} \cup WriteErrors : CliWriteDone(res)
    \/ \E res \in ClientReads : CliReadDone(res)
    \/ CliTick
    \/ CliTimerFire

(* ====================== readiness and shutdown ========================= *)

\* what a variant's poll_ready can answer: Poll::Ready(Ok(())), Poll::Pending
\* or Poll::Ready(Err(e))
ReadyAnswers == {"Ready", "Pending", "Err"}

\* what a variant's poll_shutdown can answer: Poll::Ready(()) or Poll::Pending
ShutdownAnswers == {"Ready", "Pending"}

Services == {"SelectorService", "SelectorService2"}

NoPoll == [call |-> "none"]

PollInit ==
    /\ p_servers \in 0..MaxVariants
    /\ p_ready \in [1..p_servers -> ReadyAnswers]
    /\ p_shutdown \in [1..p_servers -> ShutdownAnswers]
    /\ p_last = NoPoll

\* for srv in self.servers.iter() { ready &= srv.poll_ready(cx)?.is_ready(); }
\* from variant i on: the variants polled and the loop's outcome
RECURSIVE ReadyLoop(_, _, _, _)
ReadyLoop(answers, i, ready, polled) ==
    IF i > Len(answers)
    THEN [polled |-> polled, result |-> IF ready THEN "Ready" ELSE "Pending"]
    ELSE IF answers[i] = "Err"
         THEN [polled |-> Append(polled, i), result |-> answers[i]]
         ELSE ReadyLoop(answers, i + 1, ready /\ (answers[i] = "Ready"), Append(polled, i))

\* mutant: the answers are joined with |= in place of &=
RECURSIVE ReadyLoop_Any(_, _, _, _)
ReadyLoop_Any(answers, i, ready, polled) ==
    IF i > Len(answers)
    THEN [polled |-> polled, result |-> IF ready \/ Len(answers) = 0 THEN "Ready" ELSE "Pending"]
    ELSE IF answers[i] = "Err"
         THEN [polled |-> Append(polled, i), result |-> answers[i]]
         ELSE ReadyLoop_Any(answers, i + 1, ready \/ (answers[i] = "Ready"), Append(polled, i))

poll_ready_Any(answers) == ReadyLoop_Any(answers, 1, FALSE, << >>)

\* SelectorService::poll_ready
poll_ready(answers) == ReadyLoop(answers, 1, TRUE, << >>)

\* SelectorService2::poll_ready
poll_ready2(answers) == ReadyLoop(answers, 1, TRUE, << >>)

\* for srv in self.servers.iter() { ready &= srv.poll_shutdown(cx, is_error).is_ready() }
RECURSIVE ShutdownLoop(_, _, _, _)
ShutdownLoop(answers, i, ready, polled) ==
    IF i > Len(answers)
    THEN [polled |-> polled, result |-> IF ready THEN "Ready" ELSE "Pending"]
    ELSE ShutdownLoop(answers, i + 1, ready /\ (answers[i] = "Ready"), Append(polled, i))

\* mutant: the loop gives up at the first variant that is not done
RECURSIVE ShutdownLoop_Short(_, _, _, _)
ShutdownLoop_Short(answers, i, ready, polled) ==
    IF i > Len(answers)
    THEN [polled |-> polled, result |-> "Ready"]
    ELSE IF answers[i] # "Ready"
         THEN [polled |-> Append(polled, i), result |-> "Pending"]
         ELSE ShutdownLoop_Short(answers, i + 1, ready, Append(polled, i))

poll_shutdown_Short(answers) == ShutdownLoop_Short(answers, 1, TRUE, << >>)

\* SelectorService::poll_shutdown
poll_shutdown(answers) == ShutdownLoop(answers, 1, TRUE, << >>)

\* SelectorService2::poll_shutdown
poll_shutdown2(answers) == ShutdownLoop(answers, 1, TRUE, << >>)

\* the service's poll_ready is called
PollReady(svc) ==
    /\ LET r == IF svc = "SelectorService" THEN poll_ready(p_ready) ELSE poll_ready2(p_ready)
       IN  p_last' = [call |-> "poll_ready", svc |-> svc, asked |-> p_ready,
                      polled |-> r.polled, result |-> r.result]
    /\ UNCHANGED << p_servers, p_ready, p_shutdown >>
    /\ UNCHANGED << selVars, cliVars, manyVars, sel2Vars >>

\* the service's poll_shutdown is called
PollShutdown(svc, is_error) ==
    /\ LET r == IF svc = "SelectorService" THEN poll_shutdown(p_shutdown) ELSE poll_shutdown2(p_shutdown)
       IN  p_last' = [call |-> "poll_shutdown", svc |-> svc, is_error |-> is_error,
                      asked |-> p_shutdown, polled |-> r.polled, result |-> r.result]
    /\ UNCHANGED << p_servers, p_ready, p_shutdown >>
    /\ UNCHANGED << selVars, cliVars, manyVars, sel2Vars >>

\* a variant's readiness changes between two polls
VariantReadiness(i, a) ==
    /\ i \in 1..p_servers
    /\ p_ready[i] # a
    /\ p_ready' = [p_ready EXCEPT ![i] = a]
    /\ UNCHANGED << p_servers, p_shutdown, p_last >>
    /\ UNCHANGED << selVars, cliVars, manyVars, sel2Vars >>

\* a variant's shutdown completes between two polls
VariantShutdown(i) ==
    /\ i \in 1..p_servers
    /\ p_shutdown[i] = "Pending"
    /\ p_shutdown' = [p_shutdown EXCEPT ![i] = "Ready"]
    /\ UNCHANGED << p_servers, p_ready, p_last >>
    /\ UNCHANGED << selVars, cliVars, manyVars, sel2Vars >>

PollNext ==
    \/ \E svc \in Services : PollReady(svc)
    \/ \E svc \in Services, is_error \in BOOLEAN : PollShutdown(svc, is_error)
    \/ \E i \in 1..MaxVariants, a \in ReadyAnswers : VariantReadiness(i, a)
    \/ \E i \in 1..MaxVariants : VariantShutdown(i)

(* ========================== SelectorService2 =========================== *)

\* Selector::finish_server: Selector2 { servers: self.servers, .. }
finish_server(servers) == servers

\* Selector2::new_service: for fut in futs { servers.push(fut.await?); }
new_service2(factories) == PushAll(factories, << >>)

Sel2Init ==
    /\ s2_order = new_service2(finish_server(Registered(s_servers)))
    /\ s2_pc = "idle"
    /\ s2_delay = None
    /\ s2_shared = None
    /\ s2_frame = None
    /\ s2_first = None
    /\ s2_k = 0
    /\ s2_seen = << >>
    /\ s2_calls = << >>
    /\ s2_returns = << >>
    /\ s2_io = "none"
    /\ s2_result = NoResult

\* SelectorService2::call((io, state, delay)) up to the boxed future, for
\* the connection SelectorService is done with
Sel2Call(delay) ==
    /\ s_pc = "done"
    /\ s2_pc = "idle"
    /\ s2_pc' = "read"
    /\ s2_delay' = delay
    /\ s2_shared' = Some(NewShared(s_max_size))
    /\ s2_io' = "task"
    /\ UNCHANGED << s2_order, s2_frame, s2_first, s2_k, s2_seen, s2_calls, s2_returns,
                    s2_result >>
    /\ UNCHANGED << selVars, cliVars, pollVars, manyVars >>

\* result of the first read in SelectorService2::call
FirstPacket2(res) ==
    IF ~res.ok THEN [ok |-> FALSE, err |-> [kind |-> "Read", err |-> res.err]]
    ELSE IF res.val = None THEN [ok |-> FALSE, err |-> [kind |-> "Disconnected"]]
    ELSE [ok |-> TRUE, packet |-> res.val[1]]

ExpectedConnect2 == "MQTT-3.1.0-1: Expected CONNECT packet"

\* match packet { Connect(connect) => connect, packet => return Err(..) }
MatchConnect2(packet) ==
    IF packet.type = "Connect" THEN [ok |-> TRUE, connect |-> packet]
    ELSE [ok |-> FALSE,
          err |-> [kind |-> "Protocol", unexpected |-> packet_type(packet),
                   rule |-> ExpectedConnect2]]

CannotHandle2 == [kind |-> "ServerError", msg |-> "Cannot handle CONNECT packet"]

\* mutant: the loop of SelectorService2 leaves out the first variant
Offer2_FromSecond(k, item) ==
    IF k = 1 /\ k < s_servers
    THEN /\ s2_pc' = "variant"
         /\ s2_k' = k + 1
         /\ s2_seen' = Append(s2_seen, item)
         /\ s2_calls' = Append(s2_calls, k + 1)
         /\ s2_io' = "variant"
         /\ s2_result' = NoResult
    ELSE IF k <= s_servers
    THEN /\ s2_pc' = "variant"
         /\ s2_k' = k
         /\ s2_seen' = Append(s2_seen, item)
         /\ s2_calls' = Append(s2_calls, k)
         /\ s2_io' = "variant"
         /\ s2_result' = NoResult
    ELSE /\ s2_pc' = "done"
         /\ s2_k' = k
         /\ s2_seen' = s2_seen
         /\ s2_calls' = s2_calls
         /\ s2_io' = "dropped"
         /\ s2_result' = [kind |-> "Err", err |-> CannotHandle2]

\* the for loop of SelectorService2::call from position k on with the task
\* holding item
Offer2(k, item) ==
    IF k <= s_servers
    THEN /\ s2_pc' = "variant"
         /\ s2_k' = k
         /\ s2_seen' = Append(s2_seen, item)
         /\ s2_calls' = Append(s2_calls, k)
         /\ s2_io' = "variant"
         /\ s2_result' = NoResult
    ELSE /\ s2_pc' = "done"
         /\ s2_k' = k
         /\ s2_seen' = s2_seen
         /\ s2_calls' = s2_calls
         /\ s2_io' = "dropped"
         /\ s2_result' = [kind |-> "Err", err |-> CannotHandle2]

\* state.next(..).await resolves with the frame the connection carries; up
\* to the first srv.call(item).await
Sel2ReadFirst ==
    /\ s2_pc = "read"
    /\ s2_frame' = s_frame
    /\ LET first == FirstPacket2(s_frame[1]) IN
       IF ~first.ok
       THEN /\ s2_pc' = "done"
            /\ s2_io' = "dropped"
            /\ s2_result' = [kind |-> "Err", err |-> first.err]
            /\ UNCHANGED << s2_first, s2_k, s2_seen, s2_calls >>
       ELSE LET m == MatchConnect2(first.packet) IN
            IF ~m.ok
            THEN /\ s2_pc' = "done"
                 /\ s2_io' = "dropped"
                 /\ s2_result' = [kind |-> "Err", err |-> m.err]
                 /\ UNCHANGED << s2_first, s2_k, s2_seen, s2_calls >>
            ELSE LET item == NewItem(m.connect, s2_shared[1], s2_delay) IN
                 /\ s2_first' = Some(item)
                 /\ Offer2(1, item)
    /\ UNCHANGED << s2_order, s2_delay, s2_shared, s2_returns >>
    /\ UNCHANGED << selVars, cliVars, pollVars, manyVars >>

\* match srv.call(item).await? { Left(result) => item = result,
\*                               Right(_) => return Ok(()) }
MatchAnswer2(ans) ==
    CASE ans.tag = "Err" ->
            [continue |-> FALSE, result |-> [kind |-> "Err", err |-> ans.err]]
      [] ans.tag = "Right" ->
            [continue |-> FALSE, result |-> [kind |-> "Ok"]]
      [] OTHER ->
            [continue |-> TRUE, item |-> ans.item]

\* srv.call(item).await resolves for the variant at s2_k; up to the next
\* srv.call(item).await or the end of call()
Sel2VariantDone ==
    /\ s2_pc = "variant"
    /\ LET ans == VariantAnswer(s_behav[s2_order[s2_k]], s2_seen[Len(s2_seen)])
           m == MatchAnswer2(ans)
       IN  /\ s2_returns' = Append(s2_returns, ans)
           /\ IF m.continue
              THEN Offer2(s2_k + 1, m.item)
              ELSE /\ s2_pc' = "done"
                   /\ s2_io' = "dropped"
                   /\ s2_result' = m.result
                   /\ UNCHANGED << s2_k, s2_seen, s2_calls >>
    /\ UNCHANGED << s2_order, s2_delay, s2_shared, s2_frame, s2_first >>
    /\ UNCHANGED << selVars, cliVars, pollVars, manyVars >>

Sel2Next ==
    \/ \E delay \in Option({"sleep"}) : Sel2Call(delay)
    \/ Sel2ReadFirst
    \/ Sel2VariantDone

\* the connection goes through SelectorService, then through
\* SelectorService2
BothNext ==
    \/ SelNext
    \/ Sel2Next

(* ======================= concurrent connections ======================== *)

Conns == 1..MaxConns

\* the future of a call() that has not been made
NoCall == [pc |-> "idle", shared |-> None, item |-> None, k |-> 0, result |-> NoResult]

ManyInit ==
    /\ m_max_size \in {0, MaxSize}
    /\ m_handshake_timeout = MaxTimeout
    /\ m_heap = << >>
    /\ m_conn = [c \in Conns |-> NoCall]

\* mutant: one record is built for the service and handed to every call
Alloc_Reuse(heap) == IF heap = << >> THEN Len(heap) + 1 ELSE Len(heap)

\* Rc::new(..): a fresh allocation
Alloc(heap) == Len(heap) + 1

\* the heap after the record v is written at address a
Store(heap, a, v) ==
    IF a > Len(heap) THEN Append(heap, v) ELSE [heap EXCEPT ![a] = v]

\* SelectorService::call for connection c up to the boxed future
ManyCall(c) ==
    /\ m_conn[c].pc = "idle"
    /\ LET a == Alloc(m_heap) IN
        /\ m_heap' = Store(m_heap, a, NewShared(m_max_size))
        /\ m_conn' = [m_conn EXCEPT ![c] = [@ EXCEPT !.pc = "read", !.shared = Some(a)]]
    /\ UNCHANGED << m_max_size, m_handshake_timeout >>
    /\ UNCHANGED << selVars, cliVars, pollVars, sel2Vars >>

\* the future resolves with result: its locals are dropped
Resolved(conn, result) ==
    [conn EXCEPT !.pc = "done", !.k = 0, !.item = None, !.result = result]

\* the for loop of connection c from position k on with its task holding
\* item
ManyOffer(conn, k, item) ==
    IF k <= MaxVariants
    THEN [conn EXCEPT !.pc = "variant", !.k = k, !.item = Some(item)]
    ELSE Resolved(conn, [kind |-> "Err", err |-> CannotHandle])

\* the first read of connection c resolves; up to its first srv.call(item).await
ManyReadFirst(c, res) ==
    /\ m_conn[c].pc = "read"
    /\ LET first == FirstPacket(res)
           delay == IF non_zero(m_handshake_timeout) THEN Some("sleep") ELSE None
       IN  m_conn' = [m_conn EXCEPT ![c] =
               IF ~first.ok
               THEN Resolved(@, [kind |-> "Err", err |-> first.err])
               ELSE LET m == MatchConnect(first.packet) IN
                    IF ~m.ok
                    THEN Resolved(@, [kind |-> "Err", err |-> m.err])
                    ELSE ManyOffer(@, 1, NewItem(m.connect, @.shared[1], delay))]
    /\ UNCHANGED << m_max_size, m_handshake_timeout, m_heap >>
    /\ UNCHANGED << selVars, cliVars, pollVars, sel2Vars >>

\* what an accepting variant writes into the shared record of the item it
\* owns: the cap, from the CONNECT's receive-max
AcceptCap(shared, connect) == [shared EXCEPT !.cap = unwrap_or(connect.receive_max, 0)]

\* srv.call(item).await resolves for connection c with the variant
\* answering b; up to its next srv.call(item).await or the end of its call()
ManyVariantDone(c, b) ==
    /\ m_conn[c].pc = "variant"
    /\ LET item == m_conn[c].item[1]
           m == MatchAnswer(VariantAnswer(b, item))
       IN  /\ m_heap' = IF b = "accept"
                        THEN [m_heap EXCEPT ![item.shared] = AcceptCap(@, item.connect)]
                        ELSE m_heap
           /\ m_conn' = [m_conn EXCEPT ![c] =
                  IF m.continue
                  THEN ManyOffer(@, @.k + 1, m.item)
                  ELSE Resolved(@, m.result)]
    /\ UNCHANGED << m_max_size, m_handshake_timeout >>
    /\ UNCHANGED << selVars, cliVars, pollVars, sel2Vars >>

\* the first frames of the concurrent connections
ManyReads ==
    {ReadErr("io"), ReadOk(None), ReadOk(Some(PlainAck))}
        \cup {ReadOk(Some([type |-> "Connect", keep_alive |-> 0, receive_max |-> rm,
                           max_packet_size |-> None])) : rm \in Option(1..MaxReceive)}

ManyNext ==
    \/ \E c \in Conns : ManyCall(c)
    \/ \E c \in Conns, res \in ManyReads : ManyReadFirst(c, res)
    \/ \E c \in Conns, b \in Behaviours : ManyVariantDone(c, b)

(* ============================ specifications =========================== *)

\* the part not under study has not started and stays so
SelIdle ==
    /\ s_servers = 0
    /\ s_order = << >>
    /\ s_behav = << >>
    /\ s_max_size = 0
    /\ s_handshake_timeout = 0
    /\ s_pc = "idle"
    /\ s_shared = None
    /\ s_frame = None
    /\ s_delay = None
    /\ s_item = None
    /\ s_first = None
    /\ s_k = 0
    /\ s_seen = << >>
    /\ s_calls = << >>
    /\ s_returns = << >>
    /\ s_io = "none"
    /\ s_result = NoResult
    /\ s_clock = 0

CliIdle ==
    /\ c_pkt = BuildConnect(0, 0, 0)
    /\ c_handshake_timeout = 0
    /\ c_disconnect_timeout = DefaultDisconnectTimeout
    /\ c_stall = "none"
    /\ c_pc = "idle"
    /\ c_local = None
    /\ c_timer = None
    /\ c_clock = 0
    /\ c_io = "none"
    /\ c_wire = << >>
    /\ c_frame = None
    /\ c_shared = None
    /\ c_result = NoResult
    /\ c_ops = << >>
    /\ c_budget = 0
    /\ c_sent = << >>
    /\ c_negotiated = {}

PollIdle ==
    /\ p_servers = 0
    /\ p_ready = << >>
    /\ p_shutdown = << >>
    /\ p_last = NoPoll

ManyIdle ==
    /\ m_max_size = 0
    /\ m_handshake_timeout = 0
    /\ m_heap = << >>
    /\ m_conn = << >>

Sel2Idle ==
    /\ s2_order = << >>
    /\ s2_pc = "idle"
    /\ s2_delay = None
    /\ s2_shared = None
    /\ s2_frame = None
    /\ s2_first = None
    /\ s2_k = 0
    /\ s2_seen = << >>
    /\ s2_calls = << >>
    /\ s2_returns = << >>
    /\ s2_io = "none"
    /\ s2_result = NoResult

\* one builder finished both ways: SelectorService and SelectorService2
InitBoth ==
    /\ SelInit
    /\ Sel2Init
    /\ CliIdle
    /\ PollIdle
    /\ ManyIdle

InitSelector ==
    /\ SelInit
    /\ CliIdle
    /\ PollIdle
    /\ ManyIdle
    /\ Sel2Idle

\* the caller makes one call of connect()
InitClient ==
    /\ CliInit
    /\ c_budget = 1
    /\ SelIdle
    /\ PollIdle
    /\ ManyIdle
    /\ Sel2Idle

\* the caller calls connect() again after an attempt has ended
InitClientRepeat ==
    /\ CliInit
    /\ c_budget = MaxAttempts
    /\ SelIdle
    /\ PollIdle
    /\ ManyIdle
    /\ Sel2Idle

InitMany ==
    /\ ManyInit
    /\ SelIdle
    /\ CliIdle
    /\ PollIdle
    /\ Sel2Idle

InitPoll ==
    /\ PollInit
    /\ SelIdle
    /\ CliIdle
    /\ ManyIdle
    /\ Sel2Idle

\* one connection through the server selector
SpecSelector == InitSelector /\ [][SelNext]_vars

\* one connect() of the client connector
SpecClient == InitClient /\ [][CliNext]_vars

\* connect() called several times, one after the other, on one connector
SpecClientRepeat == InitClientRepeat /\ [][CliNext]_vars

\* a selector service polled for readiness and for shutdown
SpecPoll == InitPoll /\ [][PollNext]_vars

\* one connection through SelectorService and then through SelectorService2
SpecBoth == InitBoth /\ [][BothNext]_vars

\* several connections handled by one SelectorService at the same time
SpecMany == InitMany /\ [][ManyNext]_vars

\* the same, with time passing and the timer firing when it can
SpecClientLive ==
    /\ SpecClient
    /\ WF_vars(CliTick)
    /\ WF_vars(CliTimerFire)

(* ================================ claims =============================== *)

\* how often x occurs in seq
Count(seq, x) == Cardinality({p \in DOMAIN seq : seq[p] = x})

\* the positions in the call order at which variant i was called
CallsOf(i) == {p \in DOMAIN s_calls : s_calls[p] = i}

\* variant i has been called and its answer has been received
Returned(i, tag) ==
    \E p \in CallsOf(i) : p \in DOMAIN s_returns /\ s_returns[p].tag = tag

\* the first frame read was the packet p
FirstFrameIs(p) == s_frame = Some(ReadOk(Some(p)))

(* C1: when variant k is the one that accepts (answers Either::Right),     *)
(* every variant before k was called exactly once, with the item as built  *)
(* from the wire, and answered Either::Left with that same item; no        *)
(* variant after k is called; and call() resolved to Ok(()), the           *)
(* acceptor's own result.                                                  *)
C1_OnlyAcceptor ==
    \A k \in 1..s_servers :
        Returned(k, "Right") =>
            /\ \A j \in 1..(k - 1) :
                /\ Count(s_calls, j) = 1
                /\ \A p \in CallsOf(j) :
                    /\ s_seen[p] = s_first[1]
                    /\ s_returns[p] = Left(s_first[1])
            /\ Count(s_calls, k) = 1
            /\ \A p \in CallsOf(k) : s_seen[p] = s_first[1]
            /\ \A j \in (k + 1)..s_servers : Count(s_calls, j) = 0
            /\ s_pc = "done"
            /\ s_result = [kind |-> "Ok"]

C1_Witness ==
    /\ s_servers = 3
    /\ Returned(1, "Left")
    /\ Returned(2, "Right")
    /\ s_behav[3] = "accept"
    /\ s_pc = "done"

(* C2: a first frame that is a packet other than CONNECT ends the          *)
(* connection in the step that reads it, with Protocol(Unexpected(type of  *)
(* that packet, "MQTT-3.1.0-1: Expected CONNECT packet")), and no variant  *)
(* is called; a variant is only ever called after a CONNECT was read as    *)
(* the first frame.                                                        *)
C2_ConnectFirst ==
    /\ \A p \in OtherPackets \cup ConnectAckPackets :
          FirstFrameIs(p) =>
            /\ s_pc = "done"
            /\ s_result = [kind |-> "Err",
                           err |-> [kind |-> "Protocol", unexpected |-> p.type,
                                    rule |-> "MQTT-3.1.0-1: Expected CONNECT packet"]]
            /\ s_calls = << >>
            /\ s_seen = << >>
    /\ s_calls # << >> => \E p \in ConnectPackets : FirstFrameIs(p)

C2_Witness ==
    /\ FirstFrameIs([type |-> "Publish"])
    /\ s_servers = 2
    /\ s_behav[1] = "accept"
    /\ s_pc = "done"

\* every registered variant declines this connection
AllDecline == \A i \in 1..s_servers : s_behav[i] = "decline"

(* C3: when every variant (there may be none) declines a CONNECT, the      *)
(* variants are called one after the other in registration order, each     *)
(* once, and when call() ends all of them have been called, the result is  *)
(* ServerError("Cannot handle CONNECT packet") and the stream is dropped.  *)
C3_ChainExhausted ==
    (AllDecline /\ \E p \in ConnectPackets : FirstFrameIs(p)) =>
        /\ s_calls = [i \in 1..Len(s_calls) |-> i]
        /\ s_pc \in {"variant", "done"}
        /\ s_pc = "variant" => Len(s_returns) = Len(s_calls) - 1 /\ s_result = NoResult
        /\ s_pc = "done" =>
            /\ Len(s_calls) = s_servers
            /\ Len(s_returns) = s_servers
            /\ s_result = [kind |-> "Err",
                           err |-> [kind |-> "ServerError",
                                    msg |-> "Cannot handle CONNECT packet"]]
            /\ s_io = "dropped"

C3_Witness ==
    /\ s_servers = 3
    /\ AllDecline
    /\ s_calls = << 1, 2, 3 >>
    /\ s_pc = "done"

(* C4: when the variant called at some position answers Err(e), call()     *)
(* has ended with Err(e), that call is the last one made, and the stream   *)
(* is dropped: no later variant is tried.                                  *)
C4_VariantErrorFatal ==
    \A p \in DOMAIN s_returns :
        s_returns[p].tag = "Err" =>
            /\ p = Len(s_calls)
            /\ s_pc = "done"
            /\ s_result = [kind |-> "Err", err |-> s_returns[p].err]
            /\ s_io = "dropped"

C4_Witness ==
    /\ s_servers = 3
    /\ s_behav = << "decline", "e2", "accept" >>
    /\ Len(s_returns) = 2
    /\ s_pc = "done"

\* connect() resolved to Err(ClientError::HandshakeTimeout)
TimedOut == c_result = [kind |-> "Err", err |-> [kind |-> "HandshakeTimeout"]]

\* the attempt waits at the await that the peer never completes
Stalled == c_pc \in Stages /\ c_pc = c_stall

\* connect() resolved to Ok(client)
Established == c_result.kind = "Ok"

\* the frame read after CONNECT was the packet p
ReplyIs(p) == c_frame = Some(ReadOk(Some(p)))

(* C5: with a non-zero handshake timeout, an attempt that waits on a       *)
(* transport connect, CONNECT write or CONNACK read that never completes   *)
(* eventually resolves to HandshakeTimeout; HandshakeTimeout is only ever  *)
(* the result once the timeout has elapsed, and then the attempt has ended *)
(* and holds no stream.                                                    *)
C5_TimeoutFires ==
    /\ (c_handshake_timeout > 0 /\ Stalled) ~> TimedOut
    /\ [](TimedOut =>
            /\ c_handshake_timeout > 0
            /\ c_clock >= c_handshake_timeout
            /\ c_pc = "done"
            /\ c_io \in {"none", "dropped"}
            /\ (c_wire # << >> => c_io = "dropped"))

C5_Witness ==
    /\ TimedOut
    /\ c_handshake_timeout = 2
    /\ c_stall = "read"
    /\ Len(c_wire) = 1

(* C6: with handshake timeout 0 no timer exists and connect() never        *)
(* resolves to HandshakeTimeout; its result is only ever produced by the   *)
(* transport connect, the CONNECT write or the read resolving; and while   *)
(* the attempt waits on an await that never completes it stays there with  *)
(* no result, however much time passes.                                    *)
C6_NoTimerWhenZero ==
    /\ [](c_handshake_timeout = 0 => c_timer = None /\ ~TimedOut)
    /\ [][(c_handshake_timeout = 0 /\ c_result' # c_result) =>
            \/ \E ok \in BOOLEAN : CliTransportDone(ok)
            \/ \E res \in {"ok"} \cup WriteErrors : CliWriteDone(res)
            \/ \E res \in ClientReads : CliReadDone(res)]_vars
    /\ [][(c_handshake_timeout = 0 /\ Stalled) =>
            (c_pc' = c_pc /\ c_result' = NoResult)]_vars

C6_Witness ==
    /\ c_handshake_timeout = 0
    /\ Stalled
    /\ c_stall = "read"
    /\ c_clock = MaxClock
    /\ c_result = NoResult

\* the outcomes the claim lists
ListedErrors == {"Ack", "HandshakeTimeout", "Protocol", "Disconnected"}

\* an attempt has a result exactly when it has ended, and the result never
\* changes afterwards
OneOutcome ==
    /\ [](c_pc = "done" <=> c_result # NoResult)
    /\ [][c_result # NoResult => c_result' = c_result]_vars

(* C7, as stated: an attempt that has ended has exactly one result, which  *)
(* is a session, Ack, HandshakeTimeout, a protocol violation or            *)
(* Disconnected.                                                           *)
C7_Original ==
    /\ OneOutcome
    /\ [](c_result.kind = "Err" => c_result.err.kind \in ListedErrors)

(* C7, amended: an attempt that has ended has exactly one result, which    *)
(* is a session, Ack, HandshakeTimeout, a protocol error, Disconnected, or *)
(* the transport connector's error; the result never changes afterwards.   *)
C7_OneOutcome ==
    /\ OneOutcome
    /\ [](c_result.kind \in {"None", "Ok", "Err"})
    /\ [](c_result.kind = "Err" => c_result.err.kind \in ListedErrors \cup {"Connect"})

C7_Witness ==
    /\ c_pc = "done"
    /\ c_result = [kind |-> "Err", err |-> [kind |-> "Connect"]]
    /\ c_handshake_timeout = 2
    /\ c_clock = 1

(* C8: when the frame read after CONNECT is a CONNACK whose reason code    *)
(* is not Success, connect() resolved to Err(ClientError::Ack(that very    *)
(* acknowledgment)), and the stream is dropped rather than handed to a     *)
(* session.                                                                *)
C8_AckRejected ==
    \A a \in ConnectAckPackets :
        (ReplyIs(a) /\ a.reason_code # "Success") =>
            /\ c_pc = "done"
            /\ c_result = [kind |-> "Err", err |-> [kind |-> "Ack", ack |-> a]]
            /\ c_io = "dropped"

C8_Witness ==
    /\ ReplyIs([type |-> "ConnectAck", reason_code |-> "ServerBusy",
                server_keepalive_sec |-> Some(1), max_packet_size |-> None,
                receive_max |-> Some(2)])
    /\ c_pc = "done"

\* the acknowledgment that established the session
TheAck == c_frame[1].val[1]

(* C9: the established session's cap is the acknowledgment's receive-max   *)
(* when it has one and 0 when it has none, whatever receive-max the        *)
(* client put in its CONNECT.                                              *)
C9_CapFromAck ==
    Established =>
        /\ c_result.client.shared.cap =
                (IF TheAck.receive_max = None THEN 0 ELSE TheAck.receive_max[1])
        /\ c_shared = Some(c_result.client.shared)

C9_Witness ==
    /\ Established
    /\ TheAck.receive_max = None
    /\ c_wire[1].receive_max = Some(2)

(* C10: the established session's keep-alive is the acknowledgment's       *)
(* server keep-alive when it has one, and the keep-alive of the CONNECT    *)
(* that was sent otherwise.                                                *)
C10_KeepAlive ==
    Established =>
        c_result.client.keep_alive =
            (IF TheAck.server_keepalive_sec = None
             THEN c_wire[1].keep_alive
             ELSE TheAck.server_keepalive_sec[1])

C10_Witness ==
    /\ Established
    /\ TheAck.server_keepalive_sec = Some(0)
    /\ c_wire[1].keep_alive = 1

\* the variants 1..n in registration order
InOrder(n) == [i \in 1..n |-> i]

(* C11: a poll_ready that returns Ready has polled every registered        *)
(* variant and every one of them answered Ready in that poll; when some    *)
(* variant answers Pending and none answers an error, every variant is     *)
(* polled and poll_ready returns Pending.  This holds for SelectorService  *)
(* and SelectorService2.                                                   *)
C11_ReadyWhenAllReady ==
    p_last.call = "poll_ready" =>
        /\ p_last.result = "Ready" =>
            /\ p_last.polled = InOrder(p_servers)
            /\ \A i \in 1..p_servers : p_last.asked[i] = "Ready"
        /\ ( /\ \E i \in 1..p_servers : p_last.asked[i] = "Pending"
             /\ \A i \in 1..p_servers : p_last.asked[i] # "Err" ) =>
            /\ p_last.polled = InOrder(p_servers)
            /\ p_last.result = "Pending"

C11_Witness ==
    /\ p_last.call = "poll_ready"
    /\ p_last.svc = "SelectorService"
    /\ p_last.asked = << "Ready", "Ready", "Pending" >>
    /\ p_last.result = "Pending"

(* C12: every poll_shutdown polls every registered variant, whatever the   *)
(* earlier ones answered, and returns Ready exactly when all of them       *)
(* answered Ready in that poll, Pending otherwise.  This holds for         *)
(* SelectorService and SelectorService2.                                   *)
C12_ShutdownWhenAllDone ==
    p_last.call = "poll_shutdown" =>
        /\ p_last.polled = InOrder(p_servers)
        /\ p_last.result \in {"Ready", "Pending"}
        /\ p_last.result = "Ready" <=> \A i \in 1..p_servers : p_last.asked[i] = "Ready"

C12_Witness ==
    /\ p_last.call = "poll_shutdown"
    /\ p_last.svc = "SelectorService"
    /\ p_last.is_error
    /\ p_last.asked = << "Pending", "Ready", "Pending" >>
    /\ p_last.polled = << 1, 2, 3 >>
    /\ p_last.result = "Pending"

\* the calls to variants that have not returned yet
Holders == {j \in 1..Len(s_calls) : j > Len(s_returns)}

(* C13: at every moment at most one variant holds the connection's         *)
(* Handshake Item: while a variant's call is pending the selector's task   *)
(* holds no copy of the item and the pending call is the last one made,    *)
(* to the variant at s_k; a variant is called only after every variant     *)
(* called before it returned a decline that handed the item back.          *)
C13_OneHolder ==
    /\ Cardinality(Holders) <= 1
    /\ Len(s_returns) <= Len(s_calls)
    /\ s_pc = "variant" <=> Holders # {}
    /\ s_pc = "variant" =>
        /\ s_item = None
        /\ Holders = {Len(s_calls)}
        /\ s_calls[Len(s_calls)] = s_k
    /\ \A j \in 2..Len(s_calls) :
        /\ j - 1 <= Len(s_returns)
        /\ s_returns[j - 1].tag = "Left"
        /\ s_seen[j] = s_returns[j - 1].item

C13_Witness ==
    /\ s_pc = "variant"
    /\ s_k = 2
    /\ s_calls = << 1, 2 >>
    /\ Len(s_returns) = 1
    /\ s_returns[1].tag = "Left"
    /\ s_item = None

\* no call has set the outbound limit of the attempt's codec
OutboundUnset ==
    c_shared # None => c_shared[1].max_out = None /\ c_shared[1].out_sets = 0

(* C14, as stated: the outbound limit is unset until connect() has         *)
(* resolved to a session, stays unset on every failing outcome, and on     *)
(* every established session it has been set exactly once.                 *)
C14_Original ==
    /\ ~Established => OutboundUnset
    /\ Established => c_shared[1].out_sets = 1

(* C14: the outbound limit is unset until connect() has resolved to a      *)
(* session and stays unset on every failing outcome; on an established     *)
(* session it has been set exactly once, to the acknowledgment's           *)
(* max-packet-size, when the acknowledgment carries one, and has not been  *)
(* set at all when it carries none.                                        *)
C14_OutboundLimit ==
    /\ ~Established => OutboundUnset
    /\ Established =>
        /\ c_shared # None
        /\ c_shared[1].max_out = TheAck.max_packet_size
        /\ c_shared[1].out_sets = IF is_some(TheAck.max_packet_size) THEN 1 ELSE 0
        /\ c_result.client.shared = c_shared[1]

C14_Witness ==
    /\ Established
    /\ TheAck.max_packet_size = Some(MaxSize)
    /\ c_shared[1].max_out = Some(MaxSize)
    /\ c_shared[1].out_sets = 1
    /\ c_local[1].max_packet_size = 0

(* C15: when the frame read after CONNECT is a packet other than CONNACK,  *)
(* connect() resolved to Err(ProtocolError::Unexpected) carrying that      *)
(* packet's type and the text "Expected CONNECT-ACK packet"; the stream is *)
(* dropped and no session exists.                                          *)
C15_UnexpectedPacket ==
    \A p \in OtherPackets :
        ReplyIs(p) =>
            /\ c_pc = "done"
            /\ c_result = [kind |-> "Err",
                           err |-> [kind |-> "Protocol", unexpected |-> p.type,
                                    expected |-> "Expected CONNECT-ACK packet"]]
            /\ c_io = "dropped"
            /\ OutboundUnset

C15_Witness ==
    /\ ReplyIs([type |-> "Publish"])
    /\ c_result.kind = "Err"
    /\ c_result.err.unexpected = "Publish"
    /\ c_wire = << c_pkt >>

\* the read after CONNECT found the stream closed by the peer
PeerClosed == c_frame = Some(ReadOk(None))

\* the read after CONNECT failed with the error e
ReadFailed(e) == c_frame = Some(ReadErr(e))

(* C16: when, after CONNECT was written, the read finds the stream closed  *)
(* by the peer, connect() resolved to Err(ClientError::Disconnected); a    *)
(* decode or I/O error of the read gives a protocol error instead; in both *)
(* cases the stream is dropped and no session exists.                      *)
C16_PeerClosed ==
    /\ PeerClosed =>
        /\ c_wire = << c_pkt >>
        /\ c_result = [kind |-> "Err", err |-> [kind |-> "Disconnected"]]
        /\ c_io = "dropped"
        /\ c_shared = None
    /\ \A e \in ReadErrors :
        ReadFailed(e) =>
            /\ c_result = [kind |-> "Err", err |-> [kind |-> "Protocol", err |-> e]]
            /\ c_io = "dropped"
            /\ c_shared = None

C16_Witness ==
    /\ PeerClosed
    /\ c_pc = "done"
    /\ c_result.err.kind = "Disconnected"
    /\ c_io = "dropped"

\* the step in which connect() resolves
Resolves == c_result = NoResult /\ c_result' # NoResult

(* C17: HandshakeTimeout is only reported when a timer exists; connect()   *)
(* resolves once, so a result of the attempt is never replaced by          *)
(* HandshakeTimeout nor HandshakeTimeout by a result of the attempt; the   *)
(* step that reports HandshakeTimeout happens with the timer run out and   *)
(* the attempt suspended at one of its awaits, and it leaves the frames    *)
(* written to the peer, the read frame and the shared record as they were  *)
(* and drops the stream; a step that resolves connect() to anything else   *)
(* is a step of the attempt: it completes the await the attempt was at.    *)
C17_FirstWins ==
    /\ [](TimedOut => is_some(c_timer) /\ c_pc = "done" /\ c_io # "attempt")
    /\ [][c_result # NoResult => (TimedOut' <=> TimedOut)]_vars
    /\ [][Resolves /\ TimedOut' =>
            /\ c_pc \in Stages
            /\ Elapsed(c_timer, c_clock)
            /\ c_wire' = c_wire
            /\ c_frame' = c_frame
            /\ c_shared' = c_shared
            /\ c_io' = IF c_pc = "connect" THEN "none" ELSE "dropped"]_vars
    /\ [][Resolves /\ ~TimedOut' =>
            \/ c_pc = "connect" /\ c_result'.err = [kind |-> "Connect"]
            \/ c_pc = "write" /\ c_result'.err.kind = "Protocol"
            \/ c_pc = "read" /\ c_frame = None /\ c_frame' # None]_vars

C17_Witness ==
    /\ TimedOut
    /\ c_stall = "none"
    /\ c_wire = << c_pkt >>
    /\ c_frame = None
    /\ c_io = "dropped"

\* the I/O calls of one attempt, in the order _connect makes them
OpNames == << "call", "send", "next" >>

\* the error kinds a failing transport connect, CONNECT write and read
\* surface as
SurfacedAs == << {"Connect"}, {"Protocol"}, {"Protocol", "Disconnected"} >>

(* C18: one connect() calls the transport connector, writes CONNECT and    *)
(* reads a frame at most once each and in that order, each call made only  *)
(* after the one before it returned without error; the first call that     *)
(* fails is the last call of the attempt, and its error is connect()'s     *)
(* result.                                                                 *)
C18_NoRetry ==
    /\ Len(c_ops) <= 2 * Len(OpNames)
    /\ \A i \in 1..Len(c_ops) :
        IF i % 2 = 1
        THEN c_ops[i] = OpNames[(i + 1) \div 2]
        ELSE /\ c_ops[i] \in {"ok", "err"}
             /\ c_ops[i] = "err" => i = Len(c_ops)
    /\ Len(c_wire) <= 1
    /\ c_wire # << >> => Len(c_ops) > 3 /\ c_ops[4] = "ok"
    /\ c_frame # None <=> Len(c_ops) = 2 * Len(OpNames)
    /\ c_pc = "connect" => c_ops = << "call" >>
    /\ c_pc = "write" => c_ops = << "call", "ok", "send" >>
    /\ c_pc = "read" => c_ops = << "call", "ok", "send", "ok", "next" >>
    /\ (Len(c_ops) > 0 /\ c_ops[Len(c_ops)] = "err") =>
        /\ c_pc = "done"
        /\ c_result.kind = "Err"
        /\ c_result.err.kind \in SurfacedAs[Len(c_ops) \div 2]
        /\ c_io # "client"

C18_Witness ==
    /\ c_ops = << "call", "ok", "send", "err" >>
    /\ c_pc = "done"
    /\ c_result.kind = "Err"
    /\ c_result.err.kind = "Protocol"
    /\ c_wire = << >>

\* the connector's configuration
Config == << c_pkt, c_handshake_timeout, c_disconnect_timeout >>

(* C19: no step of any attempt changes the connector's Connect Request or  *)
(* timeouts; every CONNECT frame written by any attempt on the connector   *)
(* is the configured Connect Request, at most one per attempt; every       *)
(* attempt captures the configured values and sets up its timer from the   *)
(* configured timeout; and whatever earlier attempts negotiated, a session *)
(* takes its keep-alive, cap, limits and timeouts from the configuration   *)
(* and from its own acknowledgment only.                                   *)
C19_ConfigKept ==
    /\ [][Config' = Config]_vars
    /\ [](\A i \in 1..Len(c_sent) : c_sent[i] = c_pkt)
    /\ [](Len(c_sent) + c_budget <= MaxAttempts)
    /\ [](c_pc # "idle" =>
            /\ c_local = Some(Capture(c_pkt, c_disconnect_timeout))
            /\ c_timer = MakeTimer(c_handshake_timeout))
    /\ [](c_shared # None /\ ~Established =>
            c_shared[1] = NewShared(unwrap_or(c_pkt.max_packet_size, 0)))
    /\ [](Established =>
            /\ c_result.client.max_receive = unwrap_or(c_pkt.receive_max, 0)
            /\ c_result.client.disconnect_timeout = c_disconnect_timeout
            /\ c_result.client.keep_alive
                    = unwrap_or(TheAck.server_keepalive_sec, c_pkt.keep_alive)
            /\ c_result.client.shared.cap = unwrap_or(TheAck.receive_max, 0)
            /\ c_result.client.shared.max_out = TheAck.max_packet_size
            /\ c_result.client.shared.max_in = unwrap_or(c_pkt.max_packet_size, 0))

C19_Witness ==
    /\ c_budget = 0
    /\ c_negotiated = {"keep_alive", "cap", "max_out"}
    /\ Len(c_sent) = MaxAttempts
    /\ c_sent[1] = c_sent[Len(c_sent)]
    /\ Established
    /\ TheAck = PlainAck
    /\ c_result.client.keep_alive = c_pkt.keep_alive
    /\ c_result.client.shared.cap = 0
    /\ c_result.client.shared.max_out = None

\* the registrations of the variants invoked so far, in invocation order
Invoked == [i \in 1..Len(s_calls) |-> s_order[s_calls[i]]]

(* C20: the variants invoked for a connection are the first registered     *)
(* ones, each invoked once and in registration order; when call() returns  *)
(* Ok the last variant invoked accepts the CONNECT, every variant          *)
(* registered before it declines it, and no variant registered after it    *)
(* was invoked, whether or not it would accept too.                        *)
C20_RegistrationOrder ==
    /\ Len(s_calls) <= s_servers
    /\ Invoked = InOrder(Len(s_calls))
    /\ s_result.kind = "Ok" =>
        /\ s_calls # << >>
        /\ LET a == Invoked[Len(Invoked)] IN
            /\ s_behav[a] = "accept"
            /\ \A j \in 1..(a - 1) : s_behav[j] = "decline"
            /\ \A j \in (a + 1)..s_servers : \A i \in 1..Len(Invoked) : Invoked[i] # j

C20_Witness ==
    /\ s_servers = 3
    /\ s_behav = << "decline", "accept", "accept" >>
    /\ s_result.kind = "Ok"
    /\ Invoked = << 1, 2 >>

\* the shared record connection c's call() built, as it is now
SharedOf(c) ==
    IF m_conn[c].shared = None THEN None ELSE Some(m_heap[m_conn[c].shared[1]])

\* what belongs to connection c: where its future is, its shared record's
\* codec limits and cap, its Handshake Item and its outcome
Own(c) ==
    [pc |-> m_conn[c].pc, k |-> m_conn[c].k, result |-> m_conn[c].result,
     shared |-> SharedOf(c),
     item |-> IF m_conn[c].item = None THEN None
              ELSE Some([m_conn[c].item[1] EXCEPT !.shared = m_heap[@]])]

(* C21: every call() builds a shared record of its own, with the           *)
(* configured inbound limit, no outbound limit and cap 0, which stays so   *)
(* while the call waits for its first frame; the item a variant holds      *)
(* carries the record of its own connection; and every step changes what   *)
(* belongs to at most one connection, leaving the codec limits, cap, item  *)
(* and outcome of every other connection as they were.                     *)
C21_OwnState ==
    /\ [](\A c \in Conns :
            /\ m_conn[c].pc = "idle" <=> m_conn[c].shared = None
            /\ m_conn[c].pc = "read" => SharedOf(c) = Some(NewShared(m_max_size))
            /\ m_conn[c].item # None => m_conn[c].item[1].shared = m_conn[c].shared[1])
    /\ [](\A c, d \in Conns :
            (c # d /\ m_conn[c].shared # None /\ m_conn[d].shared # None) =>
                m_conn[c].shared # m_conn[d].shared)
    /\ [][\A c, d \in Conns : c # d => (Own(c)' = Own(c) \/ Own(d)' = Own(d))]_vars

C21_Witness ==
    /\ m_conn[1].pc = "done"
    /\ m_conn[1].result = [kind |-> "Ok"]
    /\ m_conn[1].shared = Some(2)
    /\ m_heap[2].cap = MaxReceive
    /\ m_conn[2].pc = "variant"
    /\ m_conn[2].k = 2
    /\ m_heap[1] = NewShared(m_max_size)
    /\ m_max_size = MaxSize

\* the timer of the connection has run out
DelayExpired == is_some(s_delay) /\ s_clock >= s_handshake_timeout

Invoked2 == [i \in 1..Len(s2_calls) |-> s2_order[s2_calls[i]]]

\* both services are done with the connection
BothDone == s_pc = "done" /\ s2_pc = "done"

(* C23: taken through SelectorService2 with the same first frame and the   *)
(* same variants, a connection gets a shared record with the same limits   *)
(* and cap, the variants invoked are at every moment a prefix of those     *)
(* SelectorService invoked, and at the end the same variants have been     *)
(* invoked in the same order with the same answers, the result is the      *)
(* same and the stream ends in the same place; the items the variants are  *)
(* called with differ only in the timer, which is the caller's whatever    *)
(* the selector's handshake timeout.                                       *)
C23_SameMachine ==
    /\ s2_pc # "idle" => s2_shared = s_shared
    /\ s2_frame # None => s2_frame = s_frame
    /\ Len(s2_calls) <= Len(s_calls)
    /\ \A i \in 1..Len(s2_calls) :
        /\ Invoked2[i] = Invoked[i]
        /\ s2_seen[i] = [s_seen[i] EXCEPT !.delay = s2_delay]
    /\ \A i \in 1..Len(s2_returns) : s2_returns[i].tag = s_returns[i].tag
    /\ BothDone =>
        /\ Invoked2 = Invoked
        /\ Len(s2_returns) = Len(s_returns)
        /\ s2_result = s_result
        /\ s2_io = s_io

C23_Witness ==
    /\ BothDone
    /\ s2_result = [kind |-> "Ok"]
    /\ Invoked2 = << 1, 2 >>
    /\ s_handshake_timeout = 0
    /\ s2_delay = Some("sleep")
    /\ s_seen[1].delay = None
    /\ s2_seen[2].delay = Some("sleep")

====
